---- MODULE Spec2Model ----
(***************************************************************************)
(* LedControllerWS281X (ws281x.py): text -> font lookup -> bit canvas ->    *)
(* column split -> odd-column reversal -> arranged array, plus the         *)
(* FIRST_LED table built at construction and the console display.          *)
(* Python lists are sequences; list index k is sequence position k+1.      *)
(***************************************************************************)
EXTENDS Integers, Sequences, FiniteSets, TLC

\* ---- bounds of the model ----
MaxRows == 8
MaxCols == 4
MaxNeg == 1
MaxTextLen == 2

\* characters the input texts are drawn from, with their code points
Alphabet == {" ", "9", "a"}

ord(c) ==
  CASE c = " " -> 32
    [] c = "0" -> 48
    [] c = "1" -> 49
    [] c = "2" -> 50
    [] c = "3" -> 51
    [] c = "4" -> 52
    [] c = "5" -> 53
    [] c = "6" -> 54
    [] c = "7" -> 55
    [] c = "8" -> 56
    [] c = "9" -> 57
    [] c = "a" -> 97

\* ---- class variables: the glyph bit-strings, one character per element ----
\* free = "00000000"
free ==
  <<"0", "0", "0", "0", "0", "0", "0", "0">>

\* dot = "00010000"
dot ==
  <<"0", "0", "0", "1", "0", "0", "0", "0">>

\* zero_0 = "11111111100000011000000111111111"
zero_0 ==
  <<"1", "1", "1", "1", "1", "1", "1", "1",
    "1", "0", "0", "0", "0", "0", "0", "1",
    "1", "0", "0", "0", "0", "0", "0", "1",
    "1", "1", "1", "1", "1", "1", "1", "1">>

\* one_1 with its last character missing
one_1_short ==
  <<"0", "0", "0", "0", "0", "0", "0", "0",
    "0", "0", "0", "0", "0", "0", "0", "0",
    "1", "1", "1", "1", "1", "1", "1", "1",
    "0", "0", "0", "0", "0", "0", "0">>

\* one_1 = "00000000000000001111111100000000"
one_1 ==
  <<"0", "0", "0", "0", "0", "0", "0", "0",
    "0", "0", "0", "0", "0", "0", "0", "0",
    "1", "1", "1", "1", "1", "1", "1", "1",
    "0", "0", "0", "0", "0", "0", "0", "0">>

\* two_2 = "10011111100100011001000111110001"
two_2 ==
  <<"1", "0", "0", "1", "1", "1", "1", "1",
    "1", "0", "0", "1", "0", "0", "0", "1",
    "1", "0", "0", "1", "0", "0", "0", "1",
    "1", "1", "1", "1", "0", "0", "0", "1">>

\* three_3 = "10000001100100011001000111111111"
three_3 ==
  <<"1", "0", "0", "0", "0", "0", "0", "1",
    "1", "0", "0", "1", "0", "0", "0", "1",
    "1", "0", "0", "1", "0", "0", "0", "1",
    "1", "1", "1", "1", "1", "1", "1", "1">>

\* four_4 = "11110000000100000001000011111111"
four_4 ==
  <<"1", "1", "1", "1", "0", "0", "0", "0",
    "0", "0", "0", "1", "0", "0", "0", "0",
    "0", "0", "0", "1", "0", "0", "0", "0",
    "1", "1", "1", "1", "1", "1", "1", "1">>

\* five_5 = "11110001100100011001000110011111"
five_5 ==
  <<"1", "1", "1", "1", "0", "0", "0", "1",
    "1", "0", "0", "1", "0", "0", "0", "1",
    "1", "0", "0", "1", "0", "0", "0", "1",
    "1", "0", "0", "1", "1", "1", "1", "1">>

\* six_6 = "11111111100100011001000110011111"
six_6 ==
  <<"1", "1", "1", "1", "1", "1", "1", "1",
    "1", "0", "0", "1", "0", "0", "0", "1",
    "1", "0", "0", "1", "0", "0", "0", "1",
    "1", "0", "0", "1", "1", "1", "1", "1">>

\* seven_7 = "10000000100000001000000011111111"
seven_7 ==
  <<"1", "0", "0", "0", "0", "0", "0", "0",
    "1", "0", "0", "0", "0", "0", "0", "0",
    "1", "0", "0", "0", "0", "0", "0", "0",
    "1", "1", "1", "1", "1", "1", "1", "1">>

\* eight_8 = "11111111100100011001000111111111"
eight_8 ==
  <<"1", "1", "1", "1", "1", "1", "1", "1",
    "1", "0", "0", "1", "0", "0", "0", "1",
    "1", "0", "0", "1", "0", "0", "0", "1",
    "1", "1", "1", "1", "1", "1", "1", "1">>

\* nine_9 = "11110001100100011001000111111111"
nine_9 ==
  <<"1", "1", "1", "1", "0", "0", "0", "1",
    "1", "0", "0", "1", "0", "0", "0", "1",
    "1", "0", "0", "1", "0", "0", "0", "1",
    "1", "1", "1", "1", "1", "1", "1", "1">>

\* numbers_dict: character -> glyph bit-string
numbers_dict_init ==
  [c \in {" ", "0", "1", "2", "3", "4", "5", "6", "7", "8", "9"} |->
     CASE c = " " -> free
       [] c = "0" -> zero_0
       [] c = "1" -> one_1
       [] c = "2" -> two_2
       [] c = "3" -> three_3
       [] c = "4" -> four_4
       [] c = "5" -> five_5
       [] c = "6" -> six_6
       [] c = "7" -> seven_7
       [] c = "8" -> eight_8
       [] c = "9" -> nine_9]

\* the literal 8 of "elif i % 8 != 0" in __create_columns_array
ColumnLen == 8

VARIABLES
  pc,             \* "new": not constructed, "ready": constructed, "exited": exit(1)
  ROWS, COLS, NUM_LEDS, FIRST_LED,   \* instance attributes
  numbers_dict,   \* class attribute
  text, show,     \* arguments of the latest run call
  text_bits,      \* run's local text_bits: the bit canvas of the latest call
  arranged_array, \* value returned by the latest run call
  console,        \* what the latest run call printed: rows of marks, <<>> if nothing
  calls           \* run calls made so far: "none", "one" or "many"

vars == <<pc, ROWS, COLS, NUM_LEDS, FIRST_LED, numbers_dict, text, show,
          text_bits, arranged_array, console, calls>>

\* ---- Python list indexing: k in 0..len-1, negative k counts from the end ----
InRange(list, k) ==
  -Len(list) <= k /\ k < Len(list)

ListGet(list, k) ==
  IF k >= 0 THEN list[k + 1] ELSE list[Len(list) + k + 1]

RECURSIVE Reversed(_)
Reversed(list) ==
  IF list = <<>> THEN <<>> ELSE Append(Reversed(Tail(list)), Head(list))

\* ---- __is_digit ----
\* without the white-space case
is_digit_no_space(digit) ==
  48 <= ord(digit) /\ ord(digit) <= 57

is_digit(digit) ==
  (48 <= ord(digit) /\ ord(digit) <= 57) \/ ord(digit) = 32

\* ---- __create_first_led_numbers_array ----
\* the two checks that raise ValueError; "none" when neither raises
geometry_error_and(rows, cols) ==
  IF rows < 0 /\ cols < 0 THEN "ROWS and COLS cannot be negative"
  ELSE IF rows = 0 \/ cols = 0 THEN "ROWS and COLS must be > 1."
  ELSE "none"

geometry_error(rows, cols) ==
  IF rows < 0 \/ cols < 0 THEN "ROWS and COLS cannot be negative"
  ELSE IF rows = 0 \/ cols = 0 THEN "ROWS and COLS must be > 1."
  ELSE "none"

\* the while loop, from the loop variable i and the table built so far
RECURSIVE first_led_loop_off(_, _, _, _)
first_led_loop_off(i, first_led, rows, num_leds) ==
  IF i < num_leds
    THEN LET first == i + (2 * rows)
             i2 == i + (2 * rows)
             fl == Append(first_led, first)
         IN first_led_loop_off(i2, IF i2 /= num_leds THEN Append(fl, i2) ELSE fl,
                               rows, num_leds)
    ELSE first_led

RECURSIVE first_led_loop(_, _, _, _)
first_led_loop(i, first_led, rows, num_leds) ==
  IF i < num_leds
    THEN LET first == i + (2 * rows) - 1
             i2 == i + (2 * rows)
             fl == Append(first_led, first)
         IN first_led_loop(i2, IF i2 /= num_leds THEN Append(fl, i2) ELSE fl,
                           rows, num_leds)
    ELSE first_led

\* ---- __init__ ----
Construct(rows, cols) ==
  /\ pc = "new"
  /\ ROWS' = rows
  /\ COLS' = cols
  /\ NUM_LEDS' = rows * cols
  /\ IF geometry_error(rows, cols) /= "none"
       THEN /\ FIRST_LED' = <<0>>
            /\ pc' = "exited"
       ELSE /\ FIRST_LED' = first_led_loop(0, <<0>>, rows, rows * cols)
            /\ pc' = "ready"
  /\ UNCHANGED <<numbers_dict, text, show, text_bits, arranged_array, console, calls>>

\* ---- __text_to_bit_string ----
\* inner loop: one integer appended per character of a glyph bit-string
append_glyph(bit_string, glyph) ==
  bit_string \o [k \in 1..Len(glyph) |-> IF glyph[k] = "0" THEN 0 ELSE 1]

\* outer loop over the retained characters
RECURSIVE append_text(_, _, _)
append_text(bit_string, chars, dict) ==
  IF chars = <<>> THEN bit_string
  ELSE append_text(append_glyph(bit_string, dict[Head(chars)]), Tail(chars), dict)

\* while len(bit_string) < NUM_LEDS: append(0)
RECURSIVE fill_zeros(_, _)
fill_zeros(bit_string, num_leds) ==
  IF Len(bit_string) < num_leds THEN fill_zeros(Append(bit_string, 0), num_leds)
  ELSE bit_string

\* while len(bit_string) > NUM_LEDS: pop()
RECURSIVE pop_excess(_, _)
pop_excess(bit_string, num_leds) ==
  IF Len(bit_string) > num_leds
    THEN pop_excess(SubSeq(bit_string, 1, Len(bit_string) - 1), num_leds)
    ELSE bit_string

\* the if / elif after the loops, without the elif branch
fit_length_no_pop(bit_string, num_leds) ==
  IF Len(bit_string) < num_leds THEN fill_zeros(bit_string, num_leds)
  ELSE bit_string

\* the if / elif after the loops
fit_length(bit_string, num_leds) ==
  IF Len(bit_string) < num_leds THEN fill_zeros(bit_string, num_leds)
  ELSE IF Len(bit_string) > num_leds THEN pop_excess(bit_string, num_leds)
  ELSE bit_string

text_to_bit_string_from(acc, txt, num_leds, dict) ==
  fit_length(append_text(acc, SelectSeq(txt, is_digit), dict), num_leds)

text_to_bit_string(txt, num_leds, dict) ==
  text_to_bit_string_from(<<>>, txt, num_leds, dict)

\* ---- __create_columns_array ----
\* the for loop and the append after it; k is the position in bit_string
RECURSIVE columns_loop(_, _, _, _, _)
columns_loop(bit_string, k, byte_array, tmp, i) ==
  IF k > Len(bit_string) THEN Append(byte_array, tmp)
  ELSE IF i = 0
    THEN columns_loop(bit_string, k + 1, byte_array, Append(tmp, bit_string[k]), i + 1)
  ELSE IF i % ColumnLen /= 0
    THEN columns_loop(bit_string, k + 1, byte_array, Append(tmp, bit_string[k]), i + 1)
  ELSE columns_loop(bit_string, k + 1, Append(byte_array, tmp), <<bit_string[k]>>, 1)

create_columns_array(bit_string) ==
  columns_loop(bit_string, 1, <<>>, <<>>, 0)

\* ---- __arrange_array ----
RECURSIVE sort_columns(_, _, _)
sort_columns(columns_array, j, columns_array_sorted) ==
  IF j >= Len(columns_array) THEN columns_array_sorted
  ELSE IF j = 0
    THEN sort_columns(columns_array, j + 1, Append(columns_array_sorted, columns_array[j + 1]))
  ELSE IF j % 2 /= 0
    THEN sort_columns(columns_array, j + 1,
                      Append(columns_array_sorted, Reversed(columns_array[j + 1])))
  ELSE sort_columns(columns_array, j + 1, Append(columns_array_sorted, columns_array[j + 1]))

RECURSIVE flatten(_, _)
flatten(arranged, arrs) ==
  IF arrs = <<>> THEN arranged ELSE flatten(arranged \o Head(arrs), Tail(arrs))

arrange_array(columns_array) ==
  flatten(<<>>, sort_columns(columns_array, 0, <<>>))

\* ---- __print_to_console ----
\* the light addressed for row i, column j
led_index_plus(i, j, first_led) ==
  ListGet(first_led, j) + i

led_index(i, j, first_led) ==
  IF j = 0 THEN ListGet(first_led, j) + i
  ELSE IF j % 2 = 0 THEN ListGet(first_led, j) + i
  ELSE ListGet(first_led, j) - i

\* the printed marks, one sequence per printed line; a subscript outside the
\* list raises IndexError
print_to_console(arranged, rows, cols, first_led) ==
  [r \in 1..rows |->
     [c \in 1..cols |->
        IF ~InRange(first_led, c - 1) THEN "IndexError"
        ELSE IF ~InRange(arranged, led_index(r - 1, c - 1, first_led)) THEN "IndexError"
        ELSE IF ListGet(arranged, led_index(r - 1, c - 1, first_led)) = 0 THEN " "
        ELSE "1"]]

\* ---- run ----
\* a run whose bit_string accumulator survives from the previous call
RunKeepsBits(txt, shw) ==
  /\ pc = "ready"
  /\ \E bits \in {text_to_bit_string_from(text_bits, txt, NUM_LEDS, numbers_dict)} :
       \E arranged \in {arrange_array(create_columns_array(bits))} :
        /\ text_bits' = bits
        /\ arranged_array' = arranged
        /\ console' = IF shw THEN print_to_console(arranged, ROWS, COLS, FIRST_LED)
                      ELSE <<>>
  /\ text' = txt
  /\ show' = shw
  /\ calls' = IF calls = "none" THEN "one" ELSE "many"
  /\ UNCHANGED <<pc, ROWS, COLS, NUM_LEDS, FIRST_LED, numbers_dict>>

\* text_bits, bit_string and arranged_array are run's locals, each computed once
Run(txt, shw) ==
  /\ pc = "ready"
  /\ \E bits \in {text_to_bit_string(txt, NUM_LEDS, numbers_dict)} :
       \E arranged \in {arrange_array(create_columns_array(bits))} :
        /\ text_bits' = bits
        /\ arranged_array' = arranged
        /\ console' = IF shw THEN print_to_console(arranged, ROWS, COLS, FIRST_LED)
                      ELSE <<>>
  /\ text' = txt
  /\ show' = shw
  /\ calls' = IF calls = "none" THEN "one" ELSE "many"
  /\ UNCHANGED <<pc, ROWS, COLS, NUM_LEDS, FIRST_LED, numbers_dict>>

\* ---- the state machine ----
Texts == UNION {[1..n -> Alphabet] : n \in 0..MaxTextLen}

Init ==
  /\ pc = "new"
  /\ ROWS = 0
  /\ COLS = 0
  /\ NUM_LEDS = 0
  /\ FIRST_LED = <<>>
  /\ numbers_dict = numbers_dict_init
  /\ text = <<>>
  /\ show = FALSE
  /\ text_bits = <<>>
  /\ arranged_array = <<>>
  /\ console = <<>>
  /\ calls = "none"

Next ==
  \/ \E rows \in -MaxNeg..MaxRows, cols \in -MaxNeg..MaxCols : Construct(rows, cols)
  \/ \E txt \in Texts, shw \in BOOLEAN : Run(txt, shw)

Spec == Init /\ [][Next]_vars

(***************************************************************************)
(* Properties                                                              *)
(***************************************************************************)
\* a run call has returned
Ran == pc = "ready" /\ calls /= "none"

Supported == {" ", "0", "1", "2", "3", "4", "5", "6", "7", "8", "9"}

\* E: the glyph bits of the supported characters of txt, in input order
RECURSIVE Encoding(_)
Encoding(txt) ==
  IF txt = <<>> THEN <<>>
  ELSE (IF Head(txt) \in Supported
          THEN [k \in 1..Len(numbers_dict_init[Head(txt)]) |->
                  IF numbers_dict_init[Head(txt)][k] = "1" THEN 1 ELSE 0]
          ELSE <<>>) \o Encoding(Tail(txt))

\* the first n elements of E followed by zeros
Canvas(E, n) == [k \in 1..n |-> IF k <= Len(E) THEN E[k] ELSE 0]

\* canvas in groups of rows bits, odd-indexed groups reversed
Serpentine(canvas, rows) ==
  [k \in 1..Len(canvas) |->
     LET g == (k - 1) \div rows
         r == (k - 1) % rows
     IN IF g % 2 = 1 THEN canvas[g * rows + (rows - 1 - r) + 1] ELSE canvas[k]]

HasChar(txt, c) == \E k \in 1..Len(txt) : txt[k] = c

\* C1: for a valid geometry and any text, run returns a sequence of length
\* exactly rows*cols.
C1_OutputLength ==
  Ran => Len(arranged_array) = ROWS * COLS

\* a run on a text longer than the canvas, on a canvas that is not a whole
\* number of 8-bit chunks
C1_Witness ==
  /\ Ran
  /\ Len(Encoding(text)) > ROWS * COLS
  /\ (ROWS * COLS) % ColumnLen /= 0
  /\ Len(arranged_array) = ROWS * COLS

\* C2: the sequence returned by run is the bit canvas in consecutive groups of
\* rows bits, every odd-indexed group reversed, even-indexed groups untouched.
C2_OddGroupsReversed ==
  Ran => arranged_array = Serpentine(text_bits, ROWS)

\* C3: after construction with a valid geometry FIRST_LED has length cols.
C3_TableLength ==
  pc = "ready" => Len(FIRST_LED) = COLS

\* C4: FIRST_LED[j] is j*rows for even j and (j+1)*rows-1 for odd j, for every
\* column j in 0..cols-1; rows=3, cols=4 gives exactly [0, 5, 6, 11].
C4_SerpentineStart ==
  pc = "ready" =>
    /\ \A j \in 0..(COLS - 1) :
         /\ j < Len(FIRST_LED)
         /\ FIRST_LED[j + 1] = IF j % 2 = 0 THEN j * ROWS ELSE (j + 1) * ROWS - 1
    /\ (ROWS = 3 /\ COLS = 4) => FIRST_LED = <<0, 5, 6, 11>>

C4_Witness ==
  pc = "ready" /\ ROWS = 3 /\ COLS = 4 /\ FIRST_LED = <<0, 5, 6, 11>>

\* C5: construction ends in the configuration error exactly when rows <= 0 or
\* cols <= 0, before any table entry is appended and with no run call ever made
\* on the object.
C5_ConfigurationError ==
  /\ pc /= "new" => (pc = "exited" <=> (ROWS <= 0 \/ COLS <= 0))
  /\ pc = "exited" => (FIRST_LED = <<0>> /\ calls = "none" /\ arranged_array = <<>>)

\* both dimensions negative: rows*cols is positive and construction still fails
C5_Witness ==
  pc = "exited" /\ ROWS < 0 /\ COLS < 0 /\ NUM_LEDS > 0

\* C6: the bit canvas is the first rows*cols elements of E followed by zeros,
\* E being the glyph bits of the supported characters of the text in order.
C6_CanvasIsEncodingFitted ==
  Ran => text_bits = Canvas(Encoding(text), ROWS * COLS)

\* a text with an unsupported character and a digit, whose
\* encoding is cut
C6_Witness ==
  /\ Ran
  /\ HasChar(text, "a")
  /\ HasChar(text, "9")
  /\ Len(Encoding(text)) > ROWS * COLS
  /\ text_bits = Canvas(Encoding(text), ROWS * COLS)

\* what the first run call on a freshly constructed controller returns
FirstCallResult(rows, cols, txt) ==
  arrange_array(create_columns_array(text_to_bit_string(txt, rows * cols, numbers_dict_init)))

\* C7: a run call changes none of ROWS, COLS, NUM_LEDS, FIRST_LED and the font
\* table, and returns what the first call on a fresh controller returns for
\* the same text, whatever calls came before.
C7_RunLeavesControllerAlone ==
  [][pc = "ready" =>
       /\ ROWS' = ROWS
       /\ COLS' = COLS
       /\ NUM_LEDS' = NUM_LEDS
       /\ FIRST_LED' = FIRST_LED
       /\ numbers_dict' = numbers_dict
       /\ numbers_dict' = numbers_dict_init
       /\ arranged_array' = FirstCallResult(ROWS, COLS, text')]_vars

\* a call with a display, made after earlier calls
C7_Witness ==
  /\ pc = "ready"
  /\ calls = "many"
  /\ show
  /\ arranged_array = FirstCallResult(ROWS, COLS, text)

\* C8 as stated: every glyph of the font table has the same length.
C8_AllGlyphsSameLength ==
  \A c, d \in DOMAIN numbers_dict : Len(numbers_dict[c]) = Len(numbers_dict[d])

\* C8 amended: the glyphs of '0'..'9' all have length 32 and the glyph of ' '
\* has length 8.
C8_DigitGlyphsSameLength ==
  /\ DOMAIN numbers_dict = Supported
  /\ \A c \in DOMAIN numbers_dict \ {" "} : Len(numbers_dict[c]) = 32
  /\ Len(numbers_dict[" "]) = 8

\* a run that encoded a space and a digit: 8 + 32 bits before fitting
C8_Witness ==
  /\ Ran
  /\ text = <<" ", "9">>
  /\ Len(append_text(<<>>, text, numbers_dict)) = 40

\* C9: the display shows at row i, column j the canvas value at j*rows + i.
C9_DisplayIsCanvasByColumn ==
  (Ran /\ show) =>
    \A i \in 0..(ROWS - 1), j \in 0..(COLS - 1) :
      console[i + 1][j + 1] = IF text_bits[j * ROWS + i + 1] = 0 THEN " " ELSE "1"

\* C10: every index the display computes reads an existing table entry, lies
\* in 0..rows*cols-1 and inside the arranged output, and the indices of
\* distinct (i, j) are distinct and cover every light.
C10_DisplayIndicesInRange ==
  pc = "ready" =>
    LET cells == (0..(ROWS - 1)) \X (0..(COLS - 1))
    IN /\ \A p \in cells :
            /\ 0 <= p[2] /\ p[2] < Len(FIRST_LED)
            /\ led_index(p[1], p[2], FIRST_LED) \in 0..(ROWS * COLS - 1)
            /\ Ran => led_index(p[1], p[2], FIRST_LED) < Len(arranged_array)
       /\ \A p, q \in cells :
            led_index(p[1], p[2], FIRST_LED) = led_index(q[1], q[2], FIRST_LED) => p = q
       /\ {led_index(p[1], p[2], FIRST_LED) : p \in cells} = 0..(ROWS * COLS - 1)

\* a display printed for an odd number of columns of more than one row
C10_Witness ==
  /\ Ran
  /\ show
  /\ COLS % 2 = 1
  /\ COLS > 1
  /\ ROWS > 1
  /\ Len(console) = ROWS
====
